---- MODULE Spec2Model ----
(***************************************************************************)
(* Model of the name-resolution client of fusera (package nr):             *)
(* ResolveNames' handling of the resolver's HTTP response and sanitize's   *)
(* reconciliation of the decoded payload array into a map of accessions.   *)
(*                                                                         *)
(* Go strings that the code builds with fmt.Sprintf are modelled as        *)
(* sequences of tokens (the literal pieces of the format and the           *)
(* substituted values); concatenation of strings is \o, the empty string   *)
(* is << >>.  A line break is the token "\n".  The values substituted      *)
(* (identifiers, messages, file names, links) are atoms that hold no line  *)
(* break themselves.                                                       *)
(*                                                                         *)
(* A Go map is modelled as a function; its key set is its DOMAIN.          *)
(* A File keeps the two fields the code reads (Name, Link); the other      *)
(* fields are copied verbatim with the record and never inspected.         *)
(***************************************************************************)
EXTENDS Integers, Sequences, FiniteSets, TLC

VARIABLES
    pc,       \* "request" (POST sent, no response yet), "loop" (inside sanitize), "returned"
    resp,     \* the HTTP response ResolveNames received
    payload,  \* var payload []Payload, as decoded from the body
    i,        \* position of sanitize's range loop in payload (1-based)
    accs,     \* sanitize's result mapping, accession -> Accession
    msg,      \* sanitize's msg
    errmsg,   \* sanitize's errmsg
    err,      \* the error ResolveNames returns
    result,   \* the map ResolveNames returns
    stdout,   \* what ResolveNames printed with fmt.Println
    ran       \* whether sanitize was called

vars == <<pc, resp, payload, i, accs, msg, errmsg, err, result, stdout, ran>>

----------------------------------------------------------------------------
(* Bounds and input domains *)

\* The size of a response array: its entries plus all their files.
MaxSize == 5

StatusOK == 200

IDs == {"SRR1", "SRR2"}

Statuses == {200, 404}

MessageOf(status) == IF status = 200 THEN "ok" ELSE "no data"

File(n, l) == [Name |-> n, Link |-> l]

FileRecs ==
    { File("a", "u"), File("a", "v"), File("b", "u"),
      File("", "u"), File("a", ""), File("", "") }

Payload(id, status, message, files) ==
    [ID |-> id, Status |-> status, Message |-> message, Files |-> files]

LongerFileSeqs(seqs) == { Append(s, f) : s \in seqs, f \in FileRecs }

\* t = <<the file lists of length 0, of length 1, ...>>, extended up to length n
RECURSIVE FileSeqTable(_, _)
FileSeqTable(t, n) ==
    IF Len(t) > n THEN t ELSE FileSeqTable(Append(t, LongerFileSeqs(t[Len(t)])), n)

FileSeqs == FileSeqTable(<< { << >> } >>, MaxSize)

\* The entries of size w: one for the entry, one for each of its files.  An
\* entry that reports a failure lists one file at most.
EntriesOfSize(w) ==
    { e \in { Payload(id, st, MessageOf(st), fs) :
                 id \in IDs, st \in Statuses, fs \in FileSeqs[w] } :
          e.Status = 200 \/ Len(e.Files) <= 1 }

RECURSIVE EntryTableTo(_, _)
EntryTableTo(t, n) ==
    IF Len(t) >= n THEN t ELSE EntryTableTo(Append(t, EntriesOfSize(Len(t) + 1)), n)

EntryTable == EntryTableTo(<< >>, MaxSize)

\* The shapes of the arrays of size n: the sizes of the entries, in order.
RECURSIVE ShapesOfSize(_)
ShapesOfSize(n) ==
    IF n = 0 THEN { << >> }
    ELSE UNION { { <<w>> \o sh : sh \in ShapesOfSize(n - w) } : w \in 1..n }

\* The shapes of every array of size MaxSize or less
Shapes == UNION { ShapesOfSize(n) : n \in 0..MaxSize }

\* The arrays of a shape
RECURSIVE PayloadsOfShape(_)
PayloadsOfShape(sh) ==
    IF sh = << >> THEN { << >> }
    ELSE { <<e>> \o rest : e \in EntryTable[Head(sh)], rest \in PayloadsOfShape(Tail(sh)) }

----------------------------------------------------------------------------
(* Maps *)

EmptyMap == [k \in {} |-> 0]

Put(m, k, v) == (k :> v) @@ m

----------------------------------------------------------------------------
(* The texts sanitize builds *)

\* fmt.Sprintf("%s", f) of a File
FileString(f) == <<"{", f.Name, " ", f.Link, "}">>

StatusLine(p) == <<"issue with accession ", p.ID, ": ", p.Message, "\n">>

StatusErr(p) == <<p.ID, ": ", ToString(p.Status), "\t", p.Message>>

NoLinkLine(id, f) ==
    <<"issue with accession ", id, ": API returned no link for ", f.Name, "\n">>

NoNameLine(id, f) ==
    <<"issue with accession ", id, ": API returned no name for ">> \o FileString(f) \o <<"\n">>

NoErr == [nil |-> TRUE, text |-> << >>]

Errorf(text) == [nil |-> FALSE, text |-> text]

----------------------------------------------------------------------------
(* sanitize *)

\* Faulty variant: the check of f.Link is missing.
ProcessFile_NoLinkCheck(st, id, f) ==
    IF f.Name = "" THEN [st EXCEPT !.msg = @ \o NoNameLine(id, f)]
    ELSE [st EXCEPT !.Files = Put(@, f.Name, f)]

\* The body of the loop over p.Files; st = [Files, msg].
ProcessFile(st, id, f) ==
    IF f.Link = "" THEN [st EXCEPT !.msg = @ \o NoLinkLine(id, f)]
    ELSE IF f.Name = "" THEN [st EXCEPT !.msg = @ \o NoNameLine(id, f)]
    ELSE [st EXCEPT !.Files = Put(@, f.Name, f)]

\* Faulty variant: break where the code has continue, so a malformed file ends
\* the loop over its siblings.
RECURSIVE ProcessFiles_Break(_, _, _)
ProcessFiles_Break(st, id, files) ==
    IF files = << >> THEN st
    ELSE IF Head(files).Link = "" \/ Head(files).Name = ""
    THEN ProcessFile(st, id, Head(files))
    ELSE ProcessFiles_Break(ProcessFile(st, id, Head(files)), id, Tail(files))

RECURSIVE ProcessFiles(_, _, _)
ProcessFiles(st, id, files) ==
    IF files = << >> THEN st
    ELSE ProcessFiles(ProcessFile(st, id, Head(files)), id, Tail(files))

Accession(id, files) == [ID |-> id, Files |-> files]

\* Faulty variant: the lookup of an existing acc is missing.
GetOrCreate_AlwaysNew(m, id) == Accession(id, EmptyMap)

\* "get existing acc or make a new one"
GetOrCreate(m, id) ==
    IF id \in DOMAIN m THEN m[id] ELSE Accession(id, EmptyMap)

\* Faulty variant: the continue is missing and an empty acc is stored.
RecordFailure_AddsKey(s, p) ==
    [s EXCEPT !.msg = @ \o StatusLine(p), !.errmsg = @ \o StatusErr(p),
              !.accs = Put(@, p.ID, GetOrCreate(@, p.ID))]

\* Faulty variant: errmsg is assigned, not appended to.
RecordFailure_KeepsLastError(s, p) ==
    [s EXCEPT !.msg = @ \o StatusLine(p), !.errmsg = StatusErr(p)]

\* Faulty variant: a failure deletes the identifier from the result mapping.
RecordFailure_Revokes(s, p) ==
    [s EXCEPT !.msg = @ \o StatusLine(p), !.errmsg = @ \o StatusErr(p),
              !.accs = [k \in DOMAIN @ \ {p.ID} |-> @[k]]]

\* Faulty variant: a failure starts the result mapping afresh.
RecordFailure_ClearsAll(s, p) ==
    [s EXCEPT !.msg = @ \o StatusLine(p), !.errmsg = @ \o StatusErr(p),
              !.accs = EmptyMap]

\* The branch p.Status != http.StatusOK; s = [accs, msg, errmsg].
RecordFailure(s, p) ==
    [s EXCEPT !.msg = @ \o StatusLine(p), !.errmsg = @ \o StatusErr(p)]

\* Faulty variant: an acc left without files is not stored.
MergePayload_DropsEmpty(s, p) ==
    LET acc == GetOrCreate(s.accs, p.ID)
        r   == ProcessFiles([Files |-> acc.Files, msg |-> s.msg], p.ID, p.Files)
        fin == [acc EXCEPT !.Files = r.Files]
    IN  IF DOMAIN fin.Files = {} THEN [s EXCEPT !.msg = r.msg]
        ELSE [s EXCEPT !.accs = Put(@, fin.ID, fin), !.msg = r.msg]

\* The rest of the loop body, for a status-200 entry.
MergePayload(s, p) ==
    LET acc == GetOrCreate(s.accs, p.ID)
        r   == ProcessFiles([Files |-> acc.Files, msg |-> s.msg], p.ID, p.Files)
        fin == [acc EXCEPT !.Files = r.Files]
    IN  [s EXCEPT !.accs = Put(@, fin.ID, fin), !.msg = r.msg]

ProcessPayload(s, p) ==
    IF p.Status # StatusOK THEN RecordFailure(s, p) ELSE MergePayload(s, p)

\* Faulty variant: any failing entry makes the call fail.
FinalErr_OnAnyFailure(m, em) ==
    IF Cardinality(DOMAIN m) < 1 \/ em # << >>
    THEN Errorf(<<"API returned no mountable accessions", "\n">> \o em)
    ELSE NoErr

\* if len(accs) < 1 { err = ... }
FinalErr(m, em) ==
    IF Cardinality(DOMAIN m) < 1
    THEN Errorf(<<"API returned no mountable accessions", "\n">> \o em)
    ELSE NoErr

RECURSIVE SanitizeLoop(_, _)
SanitizeLoop(s, ps) ==
    IF ps = << >> THEN s ELSE SanitizeLoop(ProcessPayload(s, Head(ps)), Tail(ps))

\* sanitize as a function of its argument: (accs, msg, err)
sanitize(ps) ==
    LET s == SanitizeLoop([accs |-> EmptyMap, msg |-> << >>, errmsg |-> << >>], ps)
    IN  [accs |-> s.accs, msg |-> s.msg, err |-> FinalErr(s.accs, s.errmsg)]

----------------------------------------------------------------------------
(* ResolveNames, from the response on *)

JSON == "application/json"

\* json.Unmarshal(bytes, &payload) with payload []Payload: a JSON array of
\* objects decodes, null decodes to the nil slice, anything else fails.
DecodeArray(body) ==
    IF body.kind = "array" THEN [ok |-> TRUE, payload |-> body.payload]
    ELSE IF body.kind = "null" THEN [ok |-> TRUE, payload |-> << >>]
    ELSE [ok |-> FALSE, payload |-> << >>]

\* Faulty variant: the second decoding's error is not looked at.
DecodeObject_NeverFails(body) ==
    [ok |-> TRUE, Status |-> body.Status, Message |-> body.Message]

\* json.Unmarshal(bytes, &errPayload) with errPayload Payload: a JSON object
\* with fields of the right types decodes (null leaves the zero value).
DecodeObject(body) ==
    IF body.kind = "object"
    THEN [ok |-> TRUE, Status |-> body.Status, Message |-> body.Message]
    ELSE IF body.kind = "null" THEN [ok |-> TRUE, Status |-> 0, Message |-> ""]
    ELSE [ok |-> FALSE, Status |-> 0, Message |-> ""]

ArrayBody(ps) == [kind |-> "array", payload |-> ps, Status |-> 0, Message |-> ""]

OtherBody(kind, status, message) ==
    [kind |-> kind, payload |-> << >>, Status |-> status, Message |-> message]

\* Bodies that are no array of payloads: a single error object, null, an
\* object whose fields have the wrong JSON types, an array whose elements are
\* no objects, a scalar, text that is no JSON.
OtherBodies ==
    { OtherBody("object", 404, "not found"), OtherBody("object", 0, ""),
      OtherBody("null", 0, ""), OtherBody("badobject", 0, ""),
      OtherBody("badarray", 0, ""), OtherBody("scalar", 0, ""),
      OtherBody("syntax", 0, "") }

SmallPayloads == PayloadsOfShape(<< >>) \cup PayloadsOfShape(<<1>>) \cup PayloadsOfShape(<<2>>)

\* ReadOK: whether ioutil.ReadAll(resp.Body) succeeds
Response(code, status, ct, readOK, body) ==
    [StatusCode |-> code, Status |-> status, ContentType |-> ct, ReadOK |-> readOK,
     Body |-> body]

HTTPStatuses == { <<200, "200 OK">>, <<500, "500 Internal Server Error">> }

ContentTypes == { JSON, "text/html", "application/json; charset=utf-8" }

\* A response that passes the checks of status and content type and
\* holds an array of payloads
ArrayResponse(ps) == Response(200, "200 OK", JSON, TRUE, ArrayBody(ps))

\* Responses of every status and content type, with bodies of every kind
OtherResponses ==
    { Response(h[1], h[2], ct, ok, b) :
          h \in HTTPStatuses, ct \in ContentTypes, ok \in BOOLEAN,
          b \in OtherBodies \cup { ArrayBody(ps) : ps \in SmallPayloads } }

NilMap == [isNil |-> TRUE, m |-> EmptyMap]

MapOf(m) == [isNil |-> FALSE, m |-> m]

Init ==
    /\ pc = "request"
    /\ resp = Response(0, "", "", FALSE, OtherBody("none", 0, ""))
    /\ payload = << >>
    /\ i = 0
    /\ accs = EmptyMap
    /\ msg = << >>
    /\ errmsg = << >>
    /\ err = NoErr
    /\ result = NilMap
    /\ stdout = << >>
    /\ ran = FALSE

\* What ResolveNames does with the response, up to the call of sanitize:
\* the error it returns at once, or none.
ProtocolError(r) ==
    IF r.StatusCode # StatusOK
    THEN Errorf(<<"encountered error from Name Resolver API: ", r.Status>>)
    ELSE IF r.ContentType # JSON
    THEN Errorf(<<"Name Resolver API gave incorrect Content-Type: ", r.ContentType>>)
    ELSE IF ~r.ReadOK
    THEN Errorf(<<"fatal error when trying to read response from Name Resolver API">>)
    ELSE IF DecodeArray(r.Body).ok
    THEN NoErr
    ELSE IF ~DecodeObject(r.Body).ok
    THEN Errorf(<<"fatal error when trying to read response from Name Resolver API">>)
    ELSE Errorf(<<"encountered error from Name Resolver API: ",
                  ToString(DecodeObject(r.Body).Status), ": ",
                  DecodeObject(r.Body).Message>>)

\* The response arrives: ResolveNames checks and decodes it, and either
\* returns an error or calls sanitize, which sets up its locals.
Respond(r) ==
    /\ pc = "request"
    /\ resp' = r
    /\ IF ProtocolError(r).nil
       THEN /\ payload' = DecodeArray(r.Body).payload
            /\ i' = 1
            /\ ran' = TRUE
            /\ pc' = "loop"
            /\ UNCHANGED <<err, result>>
       ELSE /\ err' = ProtocolError(r)
            /\ result' = NilMap
            /\ pc' = "returned"
            /\ UNCHANGED <<payload, i, ran>>
    /\ accs' = EmptyMap
    /\ msg' = << >>
    /\ errmsg' = << >>
    /\ UNCHANGED stdout

\* One iteration of "for _, p := range payload".
Iterate ==
    /\ pc = "loop"
    /\ i <= Len(payload)
    /\ LET s == ProcessPayload([accs |-> accs, msg |-> msg, errmsg |-> errmsg], payload[i])
       IN  /\ accs' = s.accs
           /\ msg' = s.msg
           /\ errmsg' = s.errmsg
    /\ i' = i + 1
    /\ UNCHANGED <<pc, resp, payload, err, result, stdout, ran>>

\* The loop is over: sanitize sets err and returns, ResolveNames prints msg
\* when there is one and no error, and returns.
Finish ==
    /\ pc = "loop"
    /\ i > Len(payload)
    /\ err' = FinalErr(accs, errmsg)
    /\ stdout' = IF msg # << >> /\ err'.nil THEN msg \o <<"\n">> ELSE << >>
    /\ result' = MapOf(accs)
    /\ pc' = "returned"
    /\ UNCHANGED <<resp, payload, i, accs, msg, errmsg, ran>>

ResolveNames ==
    /\ pc = "request"
    /\ \/ \E sh \in Shapes : \E ps \in PayloadsOfShape(sh) : Respond(ArrayResponse(ps))
       \/ \E r \in OtherResponses : Respond(r)

Next ==
    \/ ResolveNames
    \/ Iterate
    \/ Finish

Spec == Init /\ [][Next]_vars

----------------------------------------------------------------------------
(* Vocabulary of the properties *)

\* The entries sanitize has processed so far
Processed == IF ran THEN SubSeq(payload, 1, i - 1) ELSE << >>

Returned == pc = "returned" /\ ran

WellFormed(f) == f.Name # "" /\ f.Link # ""

Succeeded(p) == p.Status = 200

Range(s) == { s[k] : k \in DOMAIN s }

\* The well-formed files of an entry, in order
GoodFiles(p) == SelectSeq(p.Files, WellFormed)

GoodNames(p) == { f.Name : f \in Range(GoodFiles(p)) }

\* The last file of the list fs that is named n
LastNamed(fs, n) ==
    fs[CHOOSE k \in DOMAIN fs :
           /\ fs[k].Name = n
           /\ \A j \in DOMAIN fs : fs[j].Name = n => j <= k]

\* The positions in ps of the status-200 entries of identifier id
Successes(ps, id) == { k \in DOMAIN ps : ps[k].ID = id /\ Succeeded(ps[k]) }

\* A text cut into its lines (each ended by "\n"; an unended rest counts as one)
RECURSIVE LinesFrom(_, _, _)
LinesFrom(text, start, k) ==
    IF k > Len(text)
    THEN (IF start > Len(text) THEN << >> ELSE << SubSeq(text, start, Len(text)) >>)
    ELSE IF text[k] = "\n"
    THEN << SubSeq(text, start, k - 1) >> \o LinesFrom(text, k + 1, k + 1)
    ELSE LinesFrom(text, start, k + 1)

Lines(text) == LinesFrom(text, 1, 1)

RECURSIVE ConcatFrom(_, _)
ConcatFrom(ss, k) == IF k > Len(ss) THEN << >> ELSE ss[k] \o ConcatFrom(ss, k + 1)

Concat(ss) == ConcatFrom(ss, 1)

Failed(p) == ~Succeeded(p)

\* The line of the diagnostic trail about a failing entry: its identifier and message
IsStatusLine(l) == Len(l) = 4 /\ l[3] = ": "

\* The line of the diagnostic trail about a malformed file
IsFileLine(l) ==
    /\ Len(l) >= 4
    /\ l[3] \in {": API returned no link for ", ": API returned no name for "}

\* <<id, file>> for every malformed file of the status-200 entries of ps, in order
MalformedOf(p) ==
    IF Failed(p) THEN << >>
    ELSE LET bad(f) == ~WellFormed(f)
             fs == SelectSeq(p.Files, bad)
         IN  [k \in 1..Len(fs) |-> <<p.ID, fs[k]>>]

Malformed(ps) == Concat([k \in 1..Len(ps) |-> MalformedOf(ps[k])])

\* The lines of text about failing entries are one for each failing entry of ps,
\* in order, with its identifier and message.
StatusLinesMatch(text, ps) ==
    SelectSeq(Lines(text), IsStatusLine) =
        LET failing == SelectSeq(ps, Failed)
        IN  [k \in 1..Len(failing) |->
                <<"issue with accession ", failing[k].ID, ": ", failing[k].Message>>]

\* The lines of text about malformed files are one for each malformed file of
\* the status-200 entries of ps, in order, with the identifier and what is missing.
FileLinesMatch(text, ps) ==
    LET bad == Malformed(ps)
        fileLines == SelectSeq(Lines(text), IsFileLine)
    IN  /\ Len(fileLines) = Len(bad)
        /\ \A k \in 1..Len(bad) :
               /\ fileLines[k][2] = bad[k][1]
               /\ fileLines[k][3] = IF bad[k][2].Link = ""
                                    THEN ": API returned no link for "
                                    ELSE ": API returned no name for "

\* text holds part as a contiguous piece
Holds(text, part) ==
    \E k \in 0..(Len(text) - Len(part)) : SubSeq(text, k + 1, k + Len(part)) = part

----------------------------------------------------------------------------
(* C1: two status-200 entries of one identifier give one Manifest, the union of
   the well-formed files of both, the later entry winning a name collision,
   whatever other entries stand before, between or after them.  Stated for
   every identifier with two status-200 entries or more (with more, the union
   is of all of them): the identifier is a key, of a Manifest of that ID, whose
   file mapping has the names of the well-formed files of these entries and
   under each name the last file of that name of the last entry that has one. *)
C1_MergeIsUnion ==
    Returned =>
        \A id \in IDs :
            LET S == Successes(payload, id)
                names == UNION { GoodNames(payload[j]) : j \in S }
                last(n) == CHOOSE j \in S :
                               /\ n \in GoodNames(payload[j])
                               /\ \A k \in S : n \in GoodNames(payload[k]) => k <= j
            IN  Cardinality(S) >= 2 =>
                    /\ id \in DOMAIN result.m
                    /\ result.m[id].ID = id
                    /\ DOMAIN result.m[id].Files = names
                    /\ \A n \in names :
                           result.m[id].Files[n] = LastNamed(GoodFiles(payload[last(n)]), n)

\* Two entries of SRR1 collide on "a" and each brings a file of its own, with a
\* failing entry between them.
C1_Witness ==
    /\ Returned
    /\ Len(payload) = 3
    /\ payload[1] = Payload("SRR1", 200, "ok", <<File("a", "u")>>)
    /\ Failed(payload[2])
    /\ payload[3] = Payload("SRR1", 200, "ok", <<File("a", "v")>>)
    /\ result.m["SRR1"].Files["a"] = File("a", "v")

----------------------------------------------------------------------------
(* C2, as stated: the identifier of a failing entry (status other than 200) is
   never a key of the result mapping, and the entry gives exactly one line of
   the diagnostic trail. *)
C2_NeverAKey ==
    Returned =>
        /\ \A k \in DOMAIN payload :
               Failed(payload[k]) => payload[k].ID \notin DOMAIN result.m
        /\ StatusLinesMatch(msg, payload)

(* C2, amended: after any prefix of the array, the identifier of a failing entry
   is a key of the result mapping only when a status-200 entry of the same
   identifier has been processed, and the lines of the diagnostic trail about
   failing entries are exactly one per failing entry, in response order, each
   with the entry's identifier and message. *)
C2_KeyOnlyBySuccess ==
    LET done == Processed
    IN  /\ \A k \in DOMAIN done :
               (Failed(done[k]) /\ done[k].ID \in DOMAIN accs)
                   => Successes(done, done[k].ID) # {}
        /\ StatusLinesMatch(msg, done)

\* An identifier fails and is absent from a result that holds another one,
\* and the trail has the one line about it.
C2_Witness ==
    /\ Returned
    /\ Len(payload) = 2
    /\ payload[1].ID = "SRR1" /\ Succeeded(payload[1])
    /\ payload[2].ID = "SRR2" /\ Failed(payload[2])
    /\ DOMAIN result.m = {"SRR1"}
    /\ msg = <<"issue with accession ", "SRR2", ": ", "no data", "\n">>

----------------------------------------------------------------------------
(* C3: after any prefix of the array, no file with an empty name or an empty
   link is in a file mapping, every such file of a status-200 entry has given
   exactly one line of the diagnostic trail (one, too, when both are empty), and
   its well-formed siblings are inserted: right after an entry is processed the
   file mapping of its identifier has, under every name of a well-formed file of
   the entry, the last such file of the entry. *)
C3_MalformedSkipped ==
    /\ \A id \in DOMAIN accs : \A n \in DOMAIN accs[id].Files :
           WellFormed(accs[id].Files[n])
    /\ LET done == Processed
       IN  /\ FileLinesMatch(msg, done)
           /\ \A k \in DOMAIN done :
                  Succeeded(done[k]) =>
                      LET p == done[k]
                          names == GoodNames(p)
                      IN  /\ p.ID \in DOMAIN accs
                          /\ names \subseteq DOMAIN accs[p.ID].Files
                          /\ k = Len(done) =>
                                 \A n \in names :
                                     accs[p.ID].Files[n] = LastNamed(GoodFiles(p), n)

\* A file with neither name nor link stands between two well-formed files.
C3_Witness ==
    /\ pc = "loop"
    /\ i = 2
    /\ payload[1].Files = <<File("a", "u"), File("", ""), File("b", "u")>>
    /\ Succeeded(payload[1])
    /\ DOMAIN accs[payload[1].ID].Files = {"a", "b"}
    /\ Len(Lines(msg)) = 1

----------------------------------------------------------------------------
(* C4: sanitize returns an error exactly when the result mapping is empty after
   the last entry; then the error is "no mountable accessions". *)
C4_ErrorIffEmpty ==
    Returned =>
        /\ err.nil <=> DOMAIN result.m # {}
        /\ ~err.nil => err.text[1] = "API returned no mountable accessions"

\* A failing entry and a malformed file, and still no error.
C4_Witness ==
    /\ Returned
    /\ \E k \in DOMAIN payload : Failed(payload[k])
    /\ Malformed(payload) # << >>
    /\ DOMAIN result.m # {}
    /\ err.nil

----------------------------------------------------------------------------
(* C5, as stated (for an array that has entries): when every entry fails, or
   the status-200 entries bring no well-formed file, the call fails with an
   error and the diagnostic trail is not empty. *)
C5_FailsWithoutFiles ==
    (Returned /\ payload # << >>) =>
        ((\/ \A k \in DOMAIN payload : Failed(payload[k])
          \/ \A k \in DOMAIN payload : Succeeded(payload[k]) => GoodFiles(payload[k]) = << >>)
            => (~err.nil /\ msg # << >>))

(* C5, amended: when every entry fails the call fails with an error, and the
   diagnostic trail is not empty if the array has an entry; when an entry has
   status 200 the call does not fail, also when the status-200 entries bring no
   well-formed file: their identifiers are keys with an empty file mapping. *)
C5_FailsWhenAllFail ==
    Returned =>
        /\ (\A k \in DOMAIN payload : Failed(payload[k]))
               => (~err.nil /\ (payload # << >> => msg # << >>))
        /\ (\E k \in DOMAIN payload : Succeeded(payload[k])) => err.nil
        /\ \A k \in DOMAIN payload :
               (/\ Succeeded(payload[k])
                /\ \A j \in Successes(payload, payload[k].ID) : GoodFiles(payload[j]) = << >>)
               => /\ payload[k].ID \in DOMAIN result.m
                  /\ DOMAIN result.m[payload[k].ID].Files = {}

\* Two entries, both failing: an error and a trail of two lines.
C5_Witness ==
    /\ Returned
    /\ Len(payload) = 2
    /\ Failed(payload[1]) /\ Failed(payload[2])
    /\ ~err.nil
    /\ Len(Lines(msg)) = 2

----------------------------------------------------------------------------
(* C6: a response with a status other than 200, with a content type other than
   application/json, or with a body that is no array of payloads makes
   ResolveNames return an error and the nil map without calling sanitize; for a
   body that is one error object the error holds the object's status and
   message, and it is not the error of a body that is neither. *)
Undecodable == <<"fatal error when trying to read response from Name Resolver API">>

NeitherShape == {"badobject", "badarray", "scalar", "syntax"}

ProtocolViolation(r) ==
    \/ r.StatusCode # 200
    \/ r.ContentType # "application/json"
    \/ r.Body.kind \in {"object"} \cup NeitherShape

C6_ViolationIsFatal ==
    (pc = "returned" /\ ProtocolViolation(resp)) =>
        /\ ~err.nil
        /\ result.isNil
        /\ ~ran
        /\ (resp.StatusCode = 200 /\ resp.ContentType = "application/json" /\ resp.ReadOK) =>
              /\ resp.Body.kind = "object" =>
                     /\ Holds(err.text, <<ToString(resp.Body.Status), ": ", resp.Body.Message>>)
                     /\ err.text # Undecodable
              /\ resp.Body.kind \in NeitherShape => err.text = Undecodable

\* The single error object of the spec: status 404, message "not found".
C6_Witness ==
    /\ pc = "returned"
    /\ resp.StatusCode = 200
    /\ resp.ContentType = "application/json"
    /\ resp.ReadOK
    /\ resp.Body = OtherBody("object", 404, "not found")
    /\ err.text = <<"encountered error from Name Resolver API: ", "404", ": ", "not found">>
    /\ result.isNil

----------------------------------------------------------------------------
(* C7: no diagnostic is lost.  When the call succeeds, what ResolveNames prints
   has one line for every failing entry and for every malformed file; when
   reconciliation fails, the error's text has identifier, status and message of
   every failing entry (and then no entry had status 200, so no file was looked
   at). *)
StatusErrors(ps) ==
    Concat([k \in 1..Len(ps) |->
               IF Failed(ps[k])
               THEN <<ps[k].ID, ": ", ToString(ps[k].Status), "\t", ps[k].Message>>
               ELSE << >>])

C7_NoDiagnosticLost ==
    Returned =>
        IF err.nil
        THEN /\ StatusLinesMatch(stdout, payload)
             /\ FileLinesMatch(stdout, payload)
        ELSE /\ Malformed(payload) = << >>
             /\ SubSeq(err.text, 3, Len(err.text)) = StatusErrors(payload)

\* Nothing succeeded: both failing entries are in the error's text.
C7_Witness ==
    /\ Returned
    /\ ~err.nil
    /\ Len(payload) = 2
    /\ payload[1].ID = "SRR1" /\ payload[2].ID = "SRR2"
    /\ Holds(err.text, <<"SRR1", ": ", "404", "\t", "no data">>)
    /\ Holds(err.text, <<"SRR2", ": ", "404", "\t", "no data">>)

----------------------------------------------------------------------------
(* C8: the iteration over a failing entry leaves the result mapping as it was
   (no Manifest made, none removed, no file mapping changed); msg and errmsg
   grow and nothing else changes. *)
C8_FailureKeepsMapping ==
    [][(pc = "loop" /\ i <= Len(payload) /\ Failed(payload[i])) =>
          /\ accs' = accs
          /\ Len(msg') > Len(msg) /\ SubSeq(msg', 1, Len(msg)) = msg
          /\ Len(errmsg') > Len(errmsg) /\ SubSeq(errmsg', 1, Len(errmsg)) = errmsg
          /\ UNCHANGED <<payload, err, result, stdout>>]_vars

\* An identifier that succeeded with a file, then failed: still a key, with the file.
C8_Witness ==
    /\ pc = "loop"
    /\ i = 3
    /\ payload[1] = Payload("SRR1", 200, "ok", <<File("a", "u")>>)
    /\ payload[2].ID = "SRR1" /\ Failed(payload[2])
    /\ "SRR1" \in DOMAIN accs
    /\ accs["SRR1"].Files = ("a" :> File("a", "u"))

----------------------------------------------------------------------------
(* C9: after any prefix of the array the result mapping is well-formed: a key k
   maps to a Manifest of ID k, and a processed entry of identifier k has status
   200; a file mapping maps a name n to a file of that name, n and the link not
   empty, that is a file of a processed status-200 entry of that identifier. *)
C9_MappingWellFormed ==
    LET done == Processed
    IN  \A k \in DOMAIN accs :
            /\ accs[k].ID = k
            /\ Successes(done, k) # {}
            /\ \A n \in DOMAIN accs[k].Files :
                   LET f == accs[k].Files[n]
                   IN  /\ f.Name = n
                       /\ n # ""
                       /\ f.Link # ""
                       /\ \E j \in Successes(done, k) : f \in Range(done[j].Files)

\* Mid-way: a key with a file, while a failing entry of another identifier that
\* lists a file has been passed over.
C9_Witness ==
    /\ pc = "loop"
    /\ i = 3
    /\ Len(payload) > 2
    /\ Failed(payload[1]) /\ payload[1].Files # << >>
    /\ Succeeded(payload[2]) /\ payload[2].ID # payload[1].ID
    /\ DOMAIN accs = {payload[2].ID}
    /\ DOMAIN accs[payload[2].ID].Files # {}

----------------------------------------------------------------------------
(* C10: identifiers are reconciled independently.  The outcome for an
   identifier X (a key or not, and its file mapping) is the same for any two
   arrays with the same entries of X in the same order.  Two such arrays have
   the same array of the entries of X alone; so it is checked that the outcome
   for X of every array is the outcome for X of that array with the entries of
   all other identifiers taken out. *)
Outcome(m, X) ==
    IF X \in DOMAIN m THEN [key |-> TRUE, Files |-> m[X].Files]
    ELSE [key |-> FALSE, Files |-> EmptyMap]

\* The entries of X in ps, in order
EntriesOf(ps, X) ==
    LET of(p) == p.ID = X
    IN  SelectSeq(ps, of)

C10_Independent ==
    Returned =>
        \A X \in IDs :
            Outcome(sanitize(EntriesOf(payload, X)).accs, X) = Outcome(result.m, X)

\* SRR1 resolves with a file though SRR2 fails before and after it.
C10_Witness ==
    /\ Returned
    /\ Len(payload) = 3
    /\ payload[1].ID = "SRR2" /\ Failed(payload[1])
    /\ payload[2].ID = "SRR1" /\ Succeeded(payload[2])
    /\ payload[3].ID = "SRR2" /\ Failed(payload[3])
    /\ Outcome(result.m, "SRR1") = [key |-> TRUE, Files |-> ("a" :> File("a", "u"))]
    /\ Outcome(result.m, "SRR2").key = FALSE

====
